---- MODULE Spec2Model ----
(***************************************************************************)
(* Model of src/migration/migration.ts: migrateToLatest run by several     *)
(* processes against one database.                                         *)
(*                                                                         *)
(* The database is the environment of the code.  It is modelled as a       *)
(* read-committed store with row-level write locks:                        *)
(*   - statements outside db.transaction (the bootstrap) commit at once;   *)
(*   - statements inside db.transaction write uncommitted versions that    *)
(*     become the committed ones at Commit and are discarded at Rollback;  *)
(*   - the lock row written by an open transaction is write-locked by it:  *)
(*     the conditional UPDATE of another transaction evaluates its WHERE   *)
(*     on the in-flight version, matches no row while that version has     *)
(*     is_locked = 1, and waits for the writer while it has is_locked = 0. *)
(* migration names are strings; a name is modelled as a non-empty sequence *)
(* of character codes, ordered as Array.prototype.sort() orders strings.   *)
(***************************************************************************)
EXTENDS Integers, Sequences, FiniteSets, TLC

(* ---------------------------- bounds ----------------------------------- *)
NumProcs == 2
MaxFaults == 1

Procs == 1..NumProcs
NoProc == 0

NameUniverse == {<<1>>, <<1, 2>>, <<2>>}

Null == <<>>

(* ------------------------ program constants ---------------------------- *)
DefaultIsLocked == 0

(* --------------------------- pure helpers ------------------------------ *)

\* a < b in the order of String comparison by code units
LexLess(a, b) ==
  \E i \in 1..Len(b) :
    /\ \A j \in 1..(i - 1) : j <= Len(a) /\ a[j] = b[j]
    /\ (i > Len(a) \/ a[i] < b[i])

\* a plausible wrong comparator: shorter names first
ShortLexLess(a, b) ==
  \/ Len(a) < Len(b)
  \/ Len(a) = Len(b) /\ LexLess(a, b)

RECURSIVE SortWith(_, _)
SortWith(S, byShortLex) ==
  IF S = {} THEN <<>>
  ELSE LET m == CHOOSE x \in S : \A y \in S \ {x} :
                  IF byShortLex THEN ShortLexLess(x, y) ELSE LexLess(x, y)
       IN  <<m>> \o SortWith(S \ {m}, byShortLex)

SortNamesShortLex(S) == SortWith(S, TRUE)

SortNamesDescending(S) ==
  LET asc == SortWith(S, FALSE)
  IN  [k \in 1..Len(asc) |-> asc[Len(asc) + 1 - k]]

\* Object.keys(allMigrations).sort()
SortNames(S) == SortWith(S, FALSE)

\* .orderBy('name') of the rows whose names are S
OrderByName(S) == SortWith(S, FALSE)

Range(s) == {s[k] : k \in 1..Len(s)}

getLast(s) == IF s = <<>> THEN Null ELSE s[Len(s)]

\* Array.prototype.findIndex on names: 0-based index, -1 when absent
FindIndex(s, x) ==
  IF \E k \in 1..Len(s) : s[k] = x
  THEN (CHOOSE k \in 1..Len(s) : s[k] = x /\ \A l \in 1..(k - 1) : s[l] # x) - 1
  ELSE -1

\* Array.prototype.slice(from, to) with 0-based, half-open bounds
Slice(s, from, to) == SubSeq(s, from + 1, to)

OldMigrationsExclusive(sorted, lastExecuted, lastExecutedIndex) ==
  IF lastExecuted # Null THEN Slice(sorted, 0, lastExecutedIndex) ELSE <<>>

OldMigrations(sorted, lastExecuted, lastExecutedIndex) ==
  IF lastExecuted # Null THEN Slice(sorted, 0, lastExecutedIndex + 1) ELSE <<>>

NewMigrationsAll(sorted, lastExecuted, lastExecutedIndex) == sorted

NewMigrationsFromLast(sorted, lastExecuted, lastExecutedIndex) ==
  IF lastExecuted # Null
  THEN Slice(sorted, lastExecutedIndex, Len(sorted))
  ELSE sorted

NewMigrationsSkipOne(sorted, lastExecuted, lastExecutedIndex) ==
  IF lastExecuted # Null
  THEN Slice(sorted, lastExecutedIndex + 2, Len(sorted))
  ELSE sorted

NewMigrations(sorted, lastExecuted, lastExecutedIndex) ==
  IF lastExecuted # Null
  THEN Slice(sorted, lastExecutedIndex + 1, Len(sorted))
  ELSE sorted

ensureNotCorruptedOldOnly(executedNames, oldNames) ==
  IF \E it \in Range(oldNames) : it \notin Range(executedNames)
  THEN "corrupt_before"
  ELSE "none"

ensureNotCorruptedExecutedOnly(executedNames, oldNames) ==
  IF \E it \in Range(executedNames) : it \notin Range(oldNames)
  THEN "corrupt_missing"
  ELSE "none"

ensureNotCorruptedBeforeFirst(executedNames, oldNames) ==
  IF \E it \in Range(oldNames) : it \notin Range(executedNames)
  THEN "corrupt_before"
  ELSE IF \E it \in Range(executedNames) : it \notin Range(oldNames)
       THEN "corrupt_missing"
       ELSE "none"

\* the error ensureMigrationsAreNotCorrupted throws, "none" when it returns
ensureMigrationsAreNotCorrupted(executedNames, oldNames) ==
  IF \E it \in Range(executedNames) : it \notin Range(oldNames)
  THEN "corrupt_missing"
  ELSE IF \E it \in Range(oldNames) : it \notin Range(executedNames)
       THEN "corrupt_before"
       ELSE "none"

RethrowAlways(existsNow) == TRUE

RethrowNever(existsNow) == FALSE

\* catch (error) { if (!(await doesXExists(db))) throw error }
RethrowCreateError(existsNow) == ~existsNow

TryAcquireLockResultAnyCount(numUpdatedRows) == numUpdatedRows >= 0

TryAcquireLockResultNegated(numUpdatedRows) == numUpdatedRows # 1

\* return numUpdatedRows === 1
TryAcquireLockResult(numUpdatedRows) == numUpdatedRows = 1

ZeroCounts == [n \in NameUniverse |-> 0]

AddCounts(f, g) == [n \in NameUniverse |-> f[n] + g[n]]

PrimaryKeyViolationNever(rowsWithKey) == FALSE

\* col.primary(): an insert of a key that is already there fails
PrimaryKeyViolation(rowsWithKey) == rowsWithKey > 0

(* ------------------------------ state ---------------------------------- *)
VARIABLES
  migrations,           \* the argument of migrateToLatest: the names of allMigrations
  ledger0,              \* names in kysely_migration before the calls start
  mtExists,             \* table kysely_migration exists
  ltExists,             \* table kysely_migration_lock exists
  lockRows,             \* committed rows of kysely_migration_lock with id = 'migration_lock'
  isLocked,             \* committed is_locked of the lock row
  rowWriter,            \* open transaction that wrote the lock row, or NoProc
  uncommittedIsLocked,  \* is_locked of the version that transaction wrote
  ledger,               \* committed rows of kysely_migration: name |-> number of rows
  applied,              \* committed effects of the forward operations: name |-> times
  trxLedger,            \* per process: rows inserted by its open transaction
  trxApplied,           \* per process: forward effects of its open transaction
  pc,                   \* per process: position in doMigrateToLatest
  err,                  \* per process: the error its call failed with
  caught,               \* per process: the error caught in an ensure...Exists step
  executedMigrations,   \* per process: the local of runNewMigrations (names, as read)
  newMigrations,        \* per process: the local of runNewMigrations (names)
  loopIndex,            \* per process: position of the for loop in newMigrations
  upCalls,              \* per process: names whose up() it has invoked, in order
  faults                \* creation failures the environment may still inject

vars == <<migrations, ledger0, mtExists, ltExists, lockRows, isLocked, rowWriter,
          uncommittedIsLocked, ledger, applied, trxLedger, trxApplied, pc, err,
          caught, executedMigrations, newMigrations, loopIndex, upCalls, faults>>

dbVars == <<mtExists, ltExists, lockRows, isLocked, rowWriter, uncommittedIsLocked,
            ledger, applied, trxLedger, trxApplied>>

inputVars == <<migrations, ledger0>>

localVars == <<executedMigrations, newMigrations, loopIndex, upCalls>>

CountsOf(S) == [n \in NameUniverse |-> IF n \in S THEN 1 ELSE 0]

\* a database the program can have left behind: never bootstrapped, or
\* bootstrapped with any ledger written by earlier runs (each with its own set)
Init ==
  /\ migrations \in SUBSET NameUniverse
  /\ ledger0 \in SUBSET NameUniverse
  /\ mtExists \in BOOLEAN
  /\ ltExists = mtExists
  /\ (~mtExists => ledger0 = {})
  /\ lockRows = IF ltExists THEN 1 ELSE 0
  /\ isLocked = DefaultIsLocked
  /\ rowWriter = NoProc
  /\ uncommittedIsLocked = DefaultIsLocked
  /\ ledger = CountsOf(ledger0)
  /\ applied = CountsOf(ledger0)
  /\ trxLedger = [p \in Procs |-> ZeroCounts]
  /\ trxApplied = [p \in Procs |-> ZeroCounts]
  /\ pc = [p \in Procs |-> "mt_check"]
  /\ err = [p \in Procs |-> "none"]
  /\ caught = [p \in Procs |-> "none"]
  /\ executedMigrations = [p \in Procs |-> <<>>]
  /\ newMigrations = [p \in Procs |-> <<>>]
  /\ loopIndex = [p \in Procs |-> 0]
  /\ upCalls = [p \in Procs |-> <<>>]
  /\ faults = MaxFaults

(* ------------------- ensureMigrationTablesExists ----------------------- *)

Goto(p, label) == pc' = [pc EXCEPT ![p] = label]

\* if (!(await doesTableExists(db, MIGRATION_TABLE)))
CheckMigrationTable(p) ==
  /\ pc[p] = "mt_check"
  /\ Goto(p, IF mtExists THEN "lt_check" ELSE "mt_create")
  /\ UNCHANGED <<dbVars, inputVars, localVars, err, caught, faults>>

\* createTable(MIGRATION_TABLE).ifNotExists()...execute(): creates the table,
\* or fails because a concurrent creator got there first, or fails for a
\* reason of the environment's
CreateMigrationTable(p) ==
  /\ pc[p] = "mt_create"
  /\ \/ /\ mtExists' = TRUE
        /\ Goto(p, "lt_check")
        /\ UNCHANGED <<caught, faults>>
     \/ /\ mtExists
        /\ caught' = [caught EXCEPT ![p] = "create_race"]
        /\ Goto(p, "mt_recheck")
        /\ UNCHANGED <<mtExists, faults>>
     \/ /\ ~mtExists
        /\ faults > 0
        /\ faults' = faults - 1
        /\ caught' = [caught EXCEPT ![p] = "create_fault"]
        /\ Goto(p, "mt_recheck")
        /\ UNCHANGED mtExists
  /\ UNCHANGED <<ltExists, lockRows, isLocked, rowWriter, uncommittedIsLocked,
                 ledger, applied, trxLedger, trxApplied, inputVars, localVars, err>>

\* catch (error) { if (!(await doesTableExists(db, MIGRATION_TABLE))) throw error }
RecheckMigrationTable(p) ==
  /\ pc[p] = "mt_recheck"
  /\ IF RethrowCreateError(mtExists)
     THEN /\ err' = [err EXCEPT ![p] = caught[p]]
          /\ Goto(p, "failed")
     ELSE /\ Goto(p, "lt_check")
          /\ UNCHANGED err
  /\ caught' = [caught EXCEPT ![p] = "none"]
  /\ UNCHANGED <<dbVars, inputVars, localVars, faults>>

\* if (!(await doesTableExists(db, MIGRATION_LOCK_TABLE)))
CheckLockTable(p) ==
  /\ pc[p] = "lt_check"
  /\ Goto(p, IF ltExists THEN "row_check" ELSE "lt_create")
  /\ UNCHANGED <<dbVars, inputVars, localVars, err, caught, faults>>

\* createTable(MIGRATION_LOCK_TABLE).ifNotExists()...execute()
CreateLockTable(p) ==
  /\ pc[p] = "lt_create"
  /\ \/ /\ ltExists' = TRUE
        /\ Goto(p, "row_check")
        /\ UNCHANGED <<caught, faults>>
     \/ /\ ltExists
        /\ caught' = [caught EXCEPT ![p] = "create_race"]
        /\ Goto(p, "lt_recheck")
        /\ UNCHANGED <<ltExists, faults>>
     \/ /\ ~ltExists
        /\ faults > 0
        /\ faults' = faults - 1
        /\ caught' = [caught EXCEPT ![p] = "create_fault"]
        /\ Goto(p, "lt_recheck")
        /\ UNCHANGED ltExists
  /\ UNCHANGED <<mtExists, lockRows, isLocked, rowWriter, uncommittedIsLocked,
                 ledger, applied, trxLedger, trxApplied, inputVars, localVars, err>>

\* catch (error) { if (!(await doesTableExists(db, MIGRATION_LOCK_TABLE))) throw error }
RecheckLockTable(p) ==
  /\ pc[p] = "lt_recheck"
  /\ IF RethrowCreateError(ltExists)
     THEN /\ err' = [err EXCEPT ![p] = caught[p]]
          /\ Goto(p, "failed")
     ELSE /\ Goto(p, "row_check")
          /\ UNCHANGED err
  /\ caught' = [caught EXCEPT ![p] = "none"]
  /\ UNCHANGED <<dbVars, inputVars, localVars, faults>>

\* selectFrom(MIGRATION_LOCK_TABLE).where('id', '=', MIGRATION_LOCK_ID): !!lockRow
doesLockRowExists == lockRows > 0

\* if (!(await doesLockRowExists(db)))
CheckLockRow(p) ==
  /\ pc[p] = "row_check"
  /\ Goto(p, IF doesLockRowExists THEN "begin" ELSE "row_insert")
  /\ UNCHANGED <<dbVars, inputVars, localVars, err, caught, faults>>

\* insertInto(MIGRATION_LOCK_TABLE).values({ id: MIGRATION_LOCK_ID }).execute():
\* is_locked takes its default; the primary key rejects a second row
InsertLockRow(p) ==
  /\ pc[p] = "row_insert"
  /\ \/ /\ ~PrimaryKeyViolation(lockRows)
        /\ lockRows' = lockRows + 1
        /\ isLocked' = DefaultIsLocked
        /\ Goto(p, "begin")
        /\ UNCHANGED <<caught, faults>>
     \/ /\ PrimaryKeyViolation(lockRows)
        /\ caught' = [caught EXCEPT ![p] = "create_race"]
        /\ Goto(p, "row_recheck")
        /\ UNCHANGED <<lockRows, isLocked, faults>>
     \/ /\ ~PrimaryKeyViolation(lockRows)
        /\ faults > 0
        /\ faults' = faults - 1
        /\ caught' = [caught EXCEPT ![p] = "create_fault"]
        /\ Goto(p, "row_recheck")
        /\ UNCHANGED <<lockRows, isLocked>>
  /\ UNCHANGED <<mtExists, ltExists, rowWriter, uncommittedIsLocked,
                 ledger, applied, trxLedger, trxApplied, inputVars, localVars, err>>

\* catch (error) { if (!(await doesLockRowExists(db))) throw error }
RecheckLockRow(p) ==
  /\ pc[p] = "row_recheck"
  /\ IF RethrowCreateError(doesLockRowExists)
     THEN /\ err' = [err EXCEPT ![p] = caught[p]]
          /\ Goto(p, "failed")
     ELSE /\ Goto(p, "begin")
          /\ UNCHANGED err
  /\ caught' = [caught EXCEPT ![p] = "none"]
  /\ UNCHANGED <<dbVars, inputVars, localVars, faults>>

(* --------------------------- db.transaction ---------------------------- *)

\* await db.transaction(async (trx) => { ... }): the transaction begins
BeginTransaction(p) ==
  /\ pc[p] = "begin"
  /\ Goto(p, "acquire")
  /\ UNCHANGED <<dbVars, inputVars, localVars, err, caught, faults>>

AcquireLockOnDb == "db"

\* await acquireLock(trx): the handle the statements of acquireLock run on,
\* "trx" for the transaction, "db" for a connection that commits each statement
AcquireLockHandle == "trx"

RunNewMigrationsOnDb == "db"

\* await runNewMigrations(trx, migrations): the handle of its statements and
\* the one it passes to migration.up
RunNewMigrationsHandle == "trx"

\* is_locked of the lock row as a statement of p finds it
RowVersion(p) == IF rowWriter = NoProc THEN isLocked ELSE uncommittedIsLocked

\* the row matches the WHERE but is write-locked by another open transaction
WaitsForRowLock(p) == rowWriter \notin {NoProc, p} /\ uncommittedIsLocked = 0

NumUpdatedRowsNoFlag(p) == lockRows

\* rows matched by: where is_locked = 0 and id = MIGRATION_LOCK_ID
NumUpdatedRows(p) == IF RowVersion(p) = 0 THEN lockRows ELSE 0

\* one iteration of: while (!(await tryAcquireLock(db)))
TryAcquireLock(p) ==
  /\ pc[p] = "acquire"
  /\ ~WaitsForRowLock(p)
  /\ LET numUpdatedRows == NumUpdatedRows(p) IN
       /\ IF numUpdatedRows > 0
          THEN IF AcquireLockHandle = "trx"
               THEN /\ rowWriter' = p
                    /\ uncommittedIsLocked' = 1
                    /\ UNCHANGED isLocked
               ELSE /\ isLocked' = 1
                    /\ UNCHANGED <<rowWriter, uncommittedIsLocked>>
          ELSE UNCHANGED <<rowWriter, uncommittedIsLocked, isLocked>>
       /\ Goto(p, IF TryAcquireLockResult(numUpdatedRows) THEN "read" ELSE "sleep")
  /\ UNCHANGED <<mtExists, ltExists, lockRows, ledger, applied,
                 trxLedger, trxApplied, inputVars, localVars, err, caught, faults>>

\* await sleep(100)
Sleep(p) ==
  /\ pc[p] = "sleep"
  /\ Goto(p, "acquire")
  /\ UNCHANGED <<dbVars, inputVars, localVars, err, caught, faults>>

\* names of the rows of kysely_migration that a statement of p sees: the
\* committed ones and, inside its transaction, the ones it inserted
VisibleNames(p) ==
  {n \in NameUniverse :
     ledger[n] + (IF RunNewMigrationsHandle = "trx" THEN trxLedger[p][n] ELSE 0) > 0}

\* runNewMigrations up to the for loop: sort, read the ledger, validate, split
RunNewMigrations(p) ==
  /\ pc[p] = "read"
  /\ LET sortedMigrations == SortNames(migrations)
         executed == OrderByName(VisibleNames(p))
         lastExecuted == getLast(executed)
         lastExecutedIndex == FindIndex(sortedMigrations, lastExecuted)
         oldMigrations == OldMigrations(sortedMigrations, lastExecuted, lastExecutedIndex)
         new == NewMigrations(sortedMigrations, lastExecuted, lastExecutedIndex)
         thrown == IF lastExecuted # Null /\ lastExecutedIndex = -1
                   THEN "corrupt_missing"
                   ELSE ensureMigrationsAreNotCorrupted(executed, oldMigrations)
     IN  /\ executedMigrations' = [executedMigrations EXCEPT ![p] = executed]
         /\ IF thrown # "none"
            THEN /\ err' = [err EXCEPT ![p] = thrown]
                 /\ Goto(p, "rollback")
                 /\ UNCHANGED <<newMigrations, loopIndex>>
            ELSE /\ newMigrations' = [newMigrations EXCEPT ![p] = new]
                 /\ loopIndex' = [loopIndex EXCEPT ![p] = 1]
                 /\ Goto(p, IF new = <<>> THEN "release" ELSE "up")
                 /\ UNCHANGED err
  /\ UNCHANGED <<dbVars, inputVars, upCalls, caught, faults>>

\* await migration.up(db): returns after its effects, or throws
MigrationUp(p) ==
  /\ pc[p] = "up"
  /\ LET name == newMigrations[p][loopIndex[p]] IN
       /\ upCalls' = [upCalls EXCEPT ![p] = Append(@, name)]
       /\ \/ /\ IF RunNewMigrationsHandle = "trx"
                THEN /\ trxApplied' = [trxApplied EXCEPT ![p][name] = @ + 1]
                     /\ UNCHANGED applied
                ELSE /\ applied' = [applied EXCEPT ![name] = @ + 1]
                     /\ UNCHANGED trxApplied
             /\ Goto(p, "insert")
             /\ UNCHANGED err
          \/ /\ err' = [err EXCEPT ![p] = "up_failed"]
             /\ Goto(p, "rollback")
             /\ UNCHANGED <<applied, trxApplied>>
  /\ UNCHANGED <<mtExists, ltExists, lockRows, isLocked, rowWriter,
                 uncommittedIsLocked, ledger, trxLedger, inputVars,
                 executedMigrations, newMigrations, loopIndex, caught, faults>>

\* rows with this name, committed or written by any open transaction
RowsNamed(name) ==
  LET RECURSIVE Sum(_)
      Sum(S) == IF S = {} THEN 0
                ELSE LET q == CHOOSE x \in S : TRUE
                     IN  trxLedger[q][name] + Sum(S \ {q})
  IN  ledger[name] + Sum(Procs)

\* await db.insertInto(MIGRATION_TABLE).values({ name: migration.name }).execute()
\* and the step of the for loop
InsertMigration(p) ==
  /\ pc[p] = "insert"
  /\ LET name == newMigrations[p][loopIndex[p]] IN
       IF PrimaryKeyViolation(RowsNamed(name))
       THEN /\ err' = [err EXCEPT ![p] = "insert_failed"]
            /\ Goto(p, "rollback")
            /\ UNCHANGED <<ledger, trxLedger, loopIndex>>
       ELSE /\ IF RunNewMigrationsHandle = "trx"
               THEN /\ trxLedger' = [trxLedger EXCEPT ![p][name] = @ + 1]
                    /\ UNCHANGED ledger
               ELSE /\ ledger' = [ledger EXCEPT ![name] = @ + 1]
                    /\ UNCHANGED trxLedger
            /\ loopIndex' = [loopIndex EXCEPT ![p] = @ + 1]
            /\ Goto(p, IF loopIndex[p] + 1 > Len(newMigrations[p])
                       THEN "release" ELSE "up")
            /\ UNCHANGED err
  /\ UNCHANGED <<mtExists, ltExists, lockRows, isLocked, rowWriter,
                 uncommittedIsLocked, applied, trxApplied, inputVars,
                 executedMigrations, newMigrations, upCalls, caught, faults>>

ReleaseLockNoUpdate(p) ==
  /\ pc[p] = "release"
  /\ Goto(p, "commit")
  /\ UNCHANGED <<dbVars, inputVars, localVars, err, caught, faults>>

\* updateTable(MIGRATION_LOCK_TABLE).set({ is_locked: 0 }).where('id', '=', ...)
ReleaseLock(p) ==
  /\ pc[p] = "release"
  /\ rowWriter \in {NoProc, p}
  /\ IF lockRows > 0
     THEN /\ rowWriter' = p
          /\ uncommittedIsLocked' = 0
     ELSE UNCHANGED <<rowWriter, uncommittedIsLocked>>
  /\ Goto(p, "commit")
  /\ UNCHANGED <<mtExists, ltExists, lockRows, isLocked, ledger, applied,
                 trxLedger, trxApplied, inputVars, localVars, err, caught, faults>>

\* the callback of db.transaction returned: the transaction commits
Commit(p) ==
  /\ pc[p] = "commit"
  /\ ledger' = AddCounts(ledger, trxLedger[p])
  /\ applied' = AddCounts(applied, trxApplied[p])
  /\ trxLedger' = [trxLedger EXCEPT ![p] = ZeroCounts]
  /\ trxApplied' = [trxApplied EXCEPT ![p] = ZeroCounts]
  /\ IF rowWriter = p
     THEN /\ isLocked' = uncommittedIsLocked
          /\ rowWriter' = NoProc
     ELSE UNCHANGED <<isLocked, rowWriter>>
  /\ Goto(p, "done")
  /\ UNCHANGED <<mtExists, ltExists, lockRows, uncommittedIsLocked, inputVars,
                 localVars, err, caught, faults>>

\* the callback of db.transaction threw: the transaction rolls back, which
\* discards what it wrote, and the error reaches the caller of migrateToLatest
Rollback(p) ==
  /\ pc[p] = "rollback"
  /\ trxLedger' = [trxLedger EXCEPT ![p] = ZeroCounts]
  /\ trxApplied' = [trxApplied EXCEPT ![p] = ZeroCounts]
  /\ rowWriter' = IF rowWriter = p THEN NoProc ELSE rowWriter
  /\ Goto(p, "failed")
  /\ UNCHANGED <<mtExists, ltExists, lockRows, isLocked, uncommittedIsLocked,
                 ledger, applied, inputVars, localVars, err, caught, faults>>

(* --------------------------- specification ----------------------------- *)

\* a step of the call of process p
ProcStep(p) ==
    \/ CheckMigrationTable(p)
    \/ CreateMigrationTable(p)
    \/ RecheckMigrationTable(p)
    \/ CheckLockTable(p)
    \/ CreateLockTable(p)
    \/ RecheckLockTable(p)
    \/ CheckLockRow(p)
    \/ InsertLockRow(p)
    \/ RecheckLockRow(p)
    \/ BeginTransaction(p)
    \/ TryAcquireLock(p)
    \/ Sleep(p)
    \/ RunNewMigrations(p)
    \/ MigrationUp(p)
    \/ InsertMigration(p)
    \/ ReleaseLock(p)
    \/ Commit(p)
    \/ Rollback(p)

Next == \E p \in Procs : ProcStep(p)

Spec == Init /\ [][Next]_vars

\* every process keeps running: a call whose next step is possible takes it
FairSpec == Spec /\ \A p \in Procs : WF_vars(ProcStep(p))

TypeOK ==
  /\ pc \in [Procs -> {"mt_check", "mt_create", "mt_recheck", "lt_check", "lt_create",
                       "lt_recheck", "row_check", "row_insert", "row_recheck", "begin",
                       "acquire", "sleep", "read", "up", "insert", "release", "commit",
                       "rollback", "done", "failed"}]
  /\ rowWriter \in Procs \cup {NoProc}
  /\ isLocked \in {0, 1}

(* ------------------------------ claims --------------------------------- *)

LedgerNames == {n \in NameUniverse : ledger[n] > 0}

\* Invariant I1 of a set of executed names L against the migration set M
I1(L, M) ==
  \A e \in L : e \in M /\ \A m \in M : LexLess(m, e) => m \in L

IsAscending(s) == \A k, l \in 1..Len(s) : k < l => LexLess(s[k], s[l])

\* the names of G in ascending order
Ascending(G) == CHOOSE s \in [1..Cardinality(G) -> G] : IsAscending(s)

IsPrefixOf(s, t) == Len(s) <= Len(t) /\ s = SubSeq(t, 1, Len(s))

Terminated(p) == pc[p] \in {"done", "failed"}

\* between a successful acquireLock and the end of its transaction
HoldsLock(p) == pc[p] \in {"read", "up", "insert", "release", "commit", "rollback"}

CorruptedHistory == {"corrupt_missing", "corrupt_before"}

\* C1: concurrent calls with the same migration set and the same pending subset
\* apply each pending migration exactly once in total: no forward operation
\* takes committed effect twice, no name is recorded twice, every call whose
\* environment does not fail succeeds, and once a call has succeeded every
\* name of the set is in the ledger with its forward effect committed once.
C1_ExactlyOnce ==
  I1(ledger0, migrations) =>
    /\ \A n \in NameUniverse : applied[n] <= 1 /\ ledger[n] <= 1
    /\ ( (\A p \in Procs : Terminated(p) /\ err[p] \notin {"up_failed", "create_fault"})
         => \A p \in Procs : pc[p] = "done" )
    /\ ( (\E p \in Procs : pc[p] = "done")
         => \A n \in NameUniverse :
              /\ applied[n] = (IF n \in migrations THEN 1 ELSE 0)
              /\ ledger[n] = (IF n \in migrations THEN 1 ELSE 0) )

C1_Witness ==
  /\ I1(ledger0, migrations)
  /\ Cardinality(migrations \ ledger0) >= 2
  /\ \A p \in Procs : pc[p] = "done"
  /\ \E p \in Procs : upCalls[p] = <<>>
  /\ \E p \in Procs : Len(upCalls[p]) >= 2

\* C2: at most one process is between a successful acquireLock and the end
\* of its transaction.
C2_MutualExclusion ==
  \A p, q \in Procs : HoldsLock(p) /\ HoldsLock(q) => p = q

C2_Witness ==
  \E p, q \in Procs : HoldsLock(p) /\ pc[p] = "up" /\ pc[q] = "sleep"

\* C3: a call that finds the ledger empty and succeeds has invoked the forward
\* operation of every migration of the set exactly once, in ascending order of
\* name, and the ledger then holds exactly the names of the set.
C3_AllFromEmpty ==
  \A p \in Procs :
    pc[p] = "done" /\ executedMigrations[p] = <<>> =>
      /\ Len(upCalls[p]) = Cardinality(migrations)
      /\ Range(upCalls[p]) = migrations
      /\ IsAscending(upCalls[p])
      /\ LedgerNames = migrations
      /\ \A n \in NameUniverse : ledger[n] <= 1

C3_Witness ==
  \E p \in Procs :
    /\ pc[p] = "done"
    /\ executedMigrations[p] = <<>>
    /\ migrations = NameUniverse

\* the names of the set strictly greater than every executed name
GreaterThanExecuted(p) ==
  {m \in migrations : \A e \in Range(executedMigrations[p]) : LexLess(e, m)}

HasRead(p) == pc[p] \in {"up", "insert", "release", "commit", "rollback", "done"}
              \/ (pc[p] = "failed" /\ err[p] # "create_fault")

\* C4: a call that reads a ledger that is a prefix of the sorted names of the
\* set invokes the forward operations of exactly the names strictly greater
\* than the last executed name, in ascending order; when it has succeeded the
\* ledger holds the executed names and those names, each once, and no executed
\* name was re-invoked or changed.
C4_OnlyAfterLast ==
  \A p \in Procs :
    HasRead(p) /\ I1(Range(executedMigrations[p]), migrations) =>
      /\ IsPrefixOf(upCalls[p], Ascending(GreaterThanExecuted(p)))
      /\ \A e \in Range(executedMigrations[p]) : ledger[e] = 1 /\ applied[e] = 1
      /\ pc[p] = "done" =>
           /\ upCalls[p] = Ascending(GreaterThanExecuted(p))
           /\ LedgerNames = Range(executedMigrations[p]) \cup GreaterThanExecuted(p)
           /\ \A n \in NameUniverse : ledger[n] <= 1

C4_Witness ==
  \E p \in Procs :
    /\ pc[p] = "done"
    /\ executedMigrations[p] = << <<1>> >>
    /\ Len(upCalls[p]) = 2

\* C5: a call that reads a ledger with a name that is absent from the set
\* fails with a corrupted-history error, invokes no forward operation and
\* adds no ledger entry.
C5_MissingExecuted ==
  \A p \in Procs :
    (\E e \in Range(executedMigrations[p]) : e \notin migrations) =>
      /\ pc[p] \in {"rollback", "failed"}
      /\ err[p] \in CorruptedHistory
      /\ upCalls[p] = <<>>
      /\ trxLedger[p] = ZeroCounts
      /\ ledger = CountsOf(Range(executedMigrations[p]))

\* the absent name is not the last executed one
C5_Witness ==
  \E p \in Procs :
    /\ pc[p] = "failed"
    /\ err[p] \in CorruptedHistory
    /\ getLast(executedMigrations[p]) \in migrations
    /\ \E e \in Range(executedMigrations[p]) : e \notin migrations

\* C6: a call that reads a ledger and has in its set a name that is not in
\* the ledger and sorts before the last executed name fails with a
\* corrupted-history error, invokes no forward operation and adds no ledger
\* entry.
C6_NewBeforeLast ==
  \A p \in Procs :
    (\E m \in migrations :
       /\ m \notin Range(executedMigrations[p])
       /\ \E e \in Range(executedMigrations[p]) : LexLess(m, e)) =>
      /\ pc[p] \in {"rollback", "failed"}
      /\ err[p] \in CorruptedHistory
      /\ upCalls[p] = <<>>
      /\ trxLedger[p] = ZeroCounts
      /\ ledger = CountsOf(Range(executedMigrations[p]))

C6_Witness ==
  \E p \in Procs :
    /\ pc[p] = "failed"
    /\ err[p] = "corrupt_before"
    /\ Range(executedMigrations[p]) \subseteq migrations

\* C7: the committed ledger and forward effects change only when a
\* transaction commits, and then by all pending names of that run at once; a
\* run that fails leaves the committed ledger, effects and lock flag as they
\* were, with none of its pending names in the ledger.
C7_AllOrNothing ==
  [][ /\ \A p \in Procs :
           pc[p] = "rollback" /\ pc'[p] = "failed" =>
             /\ ledger' = ledger
             /\ applied' = applied
             /\ isLocked' = isLocked
             /\ \A n \in Range(newMigrations[p]) : ledger'[n] = 0
      /\ (ledger' # ledger \/ applied' # applied) =>
           \E q \in Procs :
             /\ pc[q] = "commit" /\ pc'[q] = "done"
             /\ ledger' = AddCounts(ledger, CountsOf(Range(newMigrations[q])))
             /\ applied' = AddCounts(applied, CountsOf(Range(newMigrations[q])))
    ]_vars

\* the forward operation of the second or third of three pending migrations failed
C7_Witness ==
  \E p \in Procs :
    /\ pc[p] = "failed"
    /\ err[p] = "up_failed"
    /\ Len(newMigrations[p]) = 3
    /\ Len(upCalls[p]) >= 2

\* C8: if the ledger starts as a prefix of the sorted names of the set, it is
\* one in every reachable committed state.
C8_LedgerIsPrefix ==
  I1(ledger0, migrations) => I1(LedgerNames, migrations)

C8_Witness ==
  /\ I1(ledger0, migrations)
  /\ ledger0 # {}
  /\ LedgerNames # ledger0
  /\ \E p \in Procs : pc[p] = "failed" /\ err[p] = "up_failed"

\* C9: after a run has failed inside its transaction the lock row is
\* committed with is_locked = 0 and is not write-locked by the failed run, so
\* the conditional update of any other call matches the row unless a third
\* call holds it.
C9_LockNotStuck ==
  \A p \in Procs :
    pc[p] = "failed" /\ err[p] \in CorruptedHistory \cup {"up_failed", "insert_failed"} =>
      /\ isLocked = 0
      /\ rowWriter # p
      /\ rowWriter = NoProc =>
           \A q \in Procs : TryAcquireLockResult(NumUpdatedRows(q))

\* a call acquired the lock after another one failed while holding it
C9_Witness ==
  \E p, q \in Procs :
    /\ pc[p] = "failed"
    /\ err[p] = "up_failed"
    /\ pc[q] = "read"

BootstrapLabels == {"mt_check", "mt_create", "mt_recheck", "lt_check", "lt_create",
                    "lt_recheck", "row_check", "row_insert", "row_recheck"}

PastBootstrap(p) ==
  /\ pc[p] \notin BootstrapLabels
  /\ ~(pc[p] = "failed" /\ err[p] \in {"create_fault", "create_race"})

\* C10: no call fails with the error of a creation that a concurrent creator
\* made fail, and once a call is past the bootstrap both tables exist and
\* the lock table holds exactly one row, committed with is_locked = 0.
C10_BootstrapRaces ==
  /\ \A p \in Procs : err[p] # "create_race"
  /\ lockRows <= 1
  /\ \A p \in Procs :
       PastBootstrap(p) =>
         mtExists /\ ltExists /\ lockRows = 1 /\ isLocked = 0

\* the insert of the lock row by one call failed because a concurrent call had
\* inserted it, and every other call is past the bootstrap
C10_Witness ==
  \E q \in Procs :
    /\ pc[q] = "row_recheck"
    /\ caught[q] = "create_race"
    /\ lockRows = 1
    /\ \A p \in Procs \ {q} : PastBootstrap(p)

\* position of a label in the order of the steps of doMigrateToLatest
Phase(label) ==
  CASE label \in BootstrapLabels        -> 1
    [] label = "begin"                  -> 2
    [] label \in {"acquire", "sleep"}   -> 3
    [] label = "read"                   -> 4
    [] label \in {"up", "insert"}       -> 5
    [] label = "release"                -> 6
    [] label = "commit"                 -> 7
    [] label = "done"                   -> 8
    [] label \in {"rollback", "failed"} -> 9

\* the lock row carries the is_locked = 1 that p's transaction wrote
LockTakenBy(p) == rowWriter = p /\ uncommittedIsLocked = 1

Inserts(p) == \E n \in NameUniverse : trxLedger'[p][n] > trxLedger[p][n]

\* C11: the steps of a run happen in the order bootstrap, begin, lock
\* acquisition, ledger read and validation, apply loop, release, commit; a
\* process reads the ledger, invokes a forward operation or inserts a ledger
\* entry only while the lock row carries its own acquisition, and the
\* committed ledger changes only in the commit of the process that wrote the
\* lock row.
C11_StepOrder ==
  [][ \A p \in Procs :
        /\ Phase(pc'[p]) >= Phase(pc[p])
        /\ (pc[p] = "read" /\ pc'[p] # "read") => LockTakenBy(p)
        /\ (upCalls'[p] # upCalls[p] \/ Inserts(p)) =>
             /\ LockTakenBy(p)
             /\ pc[p] \in {"up", "insert"}
             /\ \A q \in Procs \ {p} : Phase(pc[q]) \notin 4..7
        /\ (executedMigrations'[p] # executedMigrations[p]) => pc[p] = "read"
        /\ (pc[p] = "commit" /\ ledger' # ledger) => rowWriter = p
        /\ (ledger' # ledger) => \E q \in Procs : pc[q] = "commit" /\ pc'[q] = "done"
    ]_vars

\* a process has applied its batch and released while another one polls
C11_Witness ==
  \E p, q \in Procs :
    /\ pc[p] = "commit"
    /\ Len(upCalls[p]) >= 2
    /\ trxLedger[p] = CountsOf(Range(upCalls[p]))
    /\ pc[q] \in {"acquire", "sleep"}

Last(s) == s[Len(s)]

C12_State ==
  \A p \in Procs :
    /\ IsAscending(upCalls[p])
    /\ IsPrefixOf(upCalls[p], newMigrations[p])
    /\ pc[p] = "up" => trxLedger[p] = CountsOf(Range(upCalls[p]))
    /\ pc[p] = "insert" =>
         /\ trxLedger[p] = CountsOf(Range(upCalls[p]) \ {Last(upCalls[p])})
         /\ trxApplied[p] = CountsOf(Range(upCalls[p]))
    /\ (pc[p] = "rollback" /\ err[p] = "up_failed") =>
         /\ trxLedger[p] = CountsOf(Range(upCalls[p]) \ {Last(upCalls[p])})
         /\ trxApplied[p] = CountsOf(Range(upCalls[p]) \ {Last(upCalls[p])})
         /\ ledger[Last(upCalls[p])] = 0

C12_Step ==
  \A p \in Procs :
    /\ err[p] = "up_failed" => upCalls'[p] = upCalls[p] /\ ~Inserts(p)
    /\ (upCalls'[p] # upCalls[p]) =>
         /\ Len(upCalls'[p]) = Len(upCalls[p]) + 1
         /\ trxLedger[p] = CountsOf(Range(upCalls[p]))

\* C12: within one run the forward operations are invoked in strictly
\* ascending order of name, along the pending list; each name is inserted
\* after its forward operation returned and before the next one starts; after
\* a forward operation failed the run invokes no further one and inserts
\* nothing, and the failing name is not recorded.
C12_LoopOrder == []C12_State /\ [][C12_Step]_vars

\* the third forward operation failed after two were applied and recorded
C12_Witness ==
  \E p \in Procs :
    /\ pc[p] = "rollback"
    /\ err[p] = "up_failed"
    /\ Len(upCalls[p]) = 3
    /\ trxLedger[p] = CountsOf({upCalls[p][1], upCalls[p][2]})

RowFree == rowWriter = NoProc /\ isLocked = 0

\* C13: acquireLock returns only after a conditional update that found the
\* single lock row free and wrote is_locked = 1 to it; an attempt that does
\* not is followed by a sleep and the sleep by another attempt, and a process
\* in acquireLock has no error.
C13_AcquireRetries ==
  [][ \A p \in Procs :
        /\ (Phase(pc[p]) = 3 /\ Phase(pc'[p]) # 3) =>
             /\ pc[p] = "acquire" /\ pc'[p] = "read"
             /\ lockRows = 1 /\ RowFree
             /\ LockTakenBy(p)'
        /\ (pc[p] = "acquire" /\ pc'[p] = "sleep") =>
             /\ ~RowFree
             /\ UNCHANGED <<rowWriter, uncommittedIsLocked, isLocked>>
        /\ (pc[p] = "sleep" /\ pc'[p] # "sleep") => pc'[p] = "acquire"
        /\ Phase(pc'[p]) = 3 => err'[p] = "none"
    ]_vars

\* a process sleeps after an attempt while another one is about to release
C13_Witness ==
  \E p, q \in Procs : pc[q] = "sleep" /\ err[q] = "none" /\ pc[p] = "release"

\* C14: the committed ledger is append-only: no step lowers the number of
\* rows of a name, no name ever has more than one row, and no run fails
\* because it tried to record a name that is already recorded.
C14_AppendOnly ==
  /\ [][\A n \in NameUniverse : ledger'[n] >= ledger[n]]_vars
  /\ [](\A n \in NameUniverse : ledger[n] <= 1)
  /\ [](\A p \in Procs : err[p] # "insert_failed")

\* a run added names to a ledger that had some, after or before a failed run
C14_Witness ==
  /\ ledger0 # {}
  /\ \A n \in ledger0 : ledger[n] = 1
  /\ \E p \in Procs : pc[p] = "done" /\ upCalls[p] # <<>>
  /\ \E q \in Procs : pc[q] = "failed"

\* is_locked of the current version of the lock row
LockFlag == IF rowWriter = NoProc THEN isLocked ELSE uncommittedIsLocked

\* C15: is_locked is 0 or 1; it goes from 0 to 1 only in a successful
\* tryAcquireLock and from 1 to 0 only in releaseLock or in the rollback of
\* the transaction that set it; releaseLock always leaves it 0.
C15_LockStateMachine ==
  /\ [](LockFlag \in {0, 1})
  /\ [][ /\ (LockFlag = 0 /\ LockFlag' = 1) =>
              \E p \in Procs : pc[p] = "acquire" /\ pc'[p] = "read"
         /\ (LockFlag = 1 /\ LockFlag' = 0) =>
              \E p \in Procs :
                /\ rowWriter = p
                /\ \/ pc[p] = "release" /\ pc'[p] = "commit"
                   \/ pc[p] = "rollback" /\ pc'[p] = "failed"
         /\ \A p \in Procs :
              (pc[p] = "release" /\ pc'[p] # "release") => LockFlag' = 0
    ]_vars

\* one run released the flag it had set, another one lost it by rollback
C15_Witness ==
  \E p, q \in Procs :
    /\ pc[p] = "commit" /\ rowWriter = p /\ LockFlag = 0
    /\ pc[q] = "failed" /\ err[q] = "up_failed"

\* some executed name is not a name of the set
MissingExecuted(p) == \E e \in Range(executedMigrations[p]) : e \notin migrations

\* some name of the set below an executed name is not executed
NewBeforeExecuted(p) ==
  \E m \in migrations :
    /\ m \notin Range(executedMigrations[p])
    /\ \E e \in Range(executedMigrations[p]) : LexLess(m, e)

\* C16: a run that has validated fails with the 'previously executed
\* migration is missing' error exactly when some ledger name is not a name of
\* the set (also when a set name below the last executed one is unexecuted),
\* and with the 'new migration comes alphabetically before' error exactly
\* when every ledger name is in the set and some set name below the last
\* executed one is not in the ledger.
C16_CorruptionReasons ==
  \A p \in Procs :
    HasRead(p) =>
      /\ err[p] = "corrupt_missing" <=> MissingExecuted(p)
      /\ err[p] = "corrupt_before" <=> (~MissingExecuted(p) /\ NewBeforeExecuted(p))

\* both conditions held and the 'missing' error won
C16_Witness ==
  \E p \in Procs :
    /\ pc[p] = "failed"
    /\ err[p] = "corrupt_missing"
    /\ getLast(executedMigrations[p]) \in migrations
    /\ MissingExecuted(p) /\ NewBeforeExecuted(p)

\* the object a re-check looks for is still absent
StillAbsent(label) ==
  CASE label = "mt_recheck"  -> ~mtExists
    [] label = "lt_recheck"  -> ~ltExists
    [] label = "row_recheck" -> lockRows = 0
    [] OTHER                 -> FALSE

\* C17: when a creation failed and the re-check finds the object still
\* absent, the call fails with the error of the creation; a call fails during
\* the bootstrap only so; a failed call takes no further step, and one that
\* failed in the bootstrap has opened no transaction, written no lock row,
\* read no ledger and invoked no forward operation.
C17_BootstrapFailure ==
  /\ [][ \A p \in Procs :
           /\ (StillAbsent(pc[p]) /\ pc'[p] # pc[p]) =>
                pc'[p] = "failed" /\ err'[p] = caught[p] /\ caught[p] = "create_fault"
           /\ (Phase(pc[p]) = 1 /\ pc'[p] = "failed") => StillAbsent(pc[p])
           /\ pc[p] = "failed" => pc'[p] = "failed" /\ err'[p] = err[p]
           /\ (err'[p] = "create_fault" /\ err[p] # "create_fault") => Phase(pc[p]) = 1
     ]_vars
  /\ [](\A p \in Procs :
          err[p] = "create_fault" =>
            /\ pc[p] = "failed"
            /\ rowWriter # p
            /\ upCalls[p] = <<>>
            /\ executedMigrations[p] = <<>>
            /\ trxLedger[p] = ZeroCounts /\ trxApplied[p] = ZeroCounts)

\* the insert of the lock row failed and no row exists
C17_Witness ==
  \E p \in Procs :
    /\ pc[p] = "failed"
    /\ err[p] = "create_fault"
    /\ ltExists
    /\ lockRows = 0

\* C18: the committed is_locked is 0 in every reachable state, and an attempt
\* of tryAcquireLock fails only while the open transaction of another process
\* has written is_locked = 1.
C18_CommittedUnlocked ==
  /\ [](isLocked = 0)
  /\ [][ \A p \in Procs :
           (pc[p] = "acquire" /\ pc'[p] = "sleep") =>
             \E q \in Procs \ {p} :
               /\ LockTakenBy(q)
               /\ pc[q] \in {"read", "up", "insert", "release", "rollback"}
     ]_vars

\* an attempt failed against a transaction that is about to roll back
C18_Witness ==
  \E p, q \in Procs :
    /\ pc[q] = "sleep"
    /\ pc[p] = "rollback"
    /\ LockTakenBy(p)
    /\ isLocked = 0

\* C19: under fair scheduling every call eventually terminates, for good, and
\* a process leaves the polling of acquireLock only with the lock; so every
\* process in acquireLock eventually has the lock.
C19_Termination ==
  /\ [][ \A p \in Procs :
           (pc[p] \in {"acquire", "sleep"} /\ pc'[p] \notin {"acquire", "sleep"}) =>
             pc'[p] = "read" /\ LockTakenBy(p)'
     ]_vars
  /\ <>[](\A p \in Procs : Terminated(p))

\* every call has terminated, after contention: one failed in its forward
\* operation, another applied its batch
C19_Witness ==
  /\ \A p \in Procs : Terminated(p)
  /\ \E p \in Procs : err[p] = "up_failed" /\ Len(upCalls[p]) >= 2
  /\ \E q \in Procs : pc[q] = "done" /\ Len(upCalls[q]) >= 2

SomeoneElseDone(q) == \E p \in Procs \ {q} : pc[p] = "done"

\* C20: once a call has succeeded, every step of another call leaves the
\* committed ledger, the forward effects and the committed lock row unchanged,
\* invokes no forward operation and raises no error; its validation finds
\* nothing pending and goes on to releaseLock.
C20_Idempotent ==
  [][ \A q \in Procs :
        SomeoneElseDone(q) =>
          /\ ledger' = ledger /\ applied' = applied
          /\ isLocked' = isLocked /\ lockRows' = lockRows
          /\ upCalls'[q] = upCalls[q]
          /\ err'[q] = err[q]
          /\ (pc[q] = "read" /\ pc'[q] # "read") =>
               /\ pc'[q] = "release"
               /\ newMigrations'[q] = <<>>
               /\ Range(executedMigrations'[q]) = migrations
          /\ pc[q] = "commit" => pc'[q] \in {"commit", "done"}
    ]_vars

\* a further call after a successful one has succeeded without applying anything
C20_Witness ==
  \E p, q \in Procs :
    /\ p # q
    /\ pc[p] = "done" /\ upCalls[p] # <<>>
    /\ pc[q] = "done" /\ upCalls[q] = <<>>
    /\ Range(executedMigrations[q]) = migrations
    /\ executedMigrations[p] # executedMigrations[q]

====
